---- MODULE Spec2Model ----
(***************************************************************************)
(* LinguaAnimae: the label-translation run of 04_translate_labels.ipynb    *)
(* and the annotation clean-up and merge cells of data/evaluation/         *)
(* viz.ipynb.  Strings are sequences of characters; a DataFrame is the     *)
(* sequence of its rows, a row a record of its columns.                    *)
(***************************************************************************)
EXTENDS Integers, Sequences, FiniteSets, TLC

(***************************************************************************)
(* Bounds of the model.                                                    *)
(***************************************************************************)
\* longest English / Spanish file of the translation run, in rows
MaxRows ==
    2

(***************************************************************************)
(* Strings.  An accented letter is one character, written "o_acute".       *)
(***************************************************************************)
\* the missing value read_csv gives for an empty cell (a float, not a string)
NaN ==
    <<"NaN">>

isna(v) ==
    v = NaN

Whitespace ==
    {" ", "\t", "\n"}

UpperChars ==
    <<"A","B","C","D","E","F","G","H","I","J","K","L","M",
      "N","O","P","Q","R","S","T","U","V","W","X","Y","Z">>

LowerChars ==
    <<"a","b","c","d","e","f","g","h","i","j","k","l","m",
      "n","o","p","q","r","s","t","u","v","w","x","y","z">>

lower_char(c) ==
    IF \E i \in 1..Len(UpperChars) : UpperChars[i] = c
    THEN LowerChars[CHOOSE i \in 1..Len(UpperChars) : UpperChars[i] = c]
    ELSE c

\* str.lower()
lower(s) ==
    [i \in 1..Len(s) |-> lower_char(s[i])]

RECURSIVE lstrip(_)
lstrip(s) ==
    IF s # <<>> /\ Head(s) \in Whitespace THEN lstrip(Tail(s)) ELSE s

RECURSIVE rstrip(_)
rstrip(s) ==
    IF s # <<>> /\ s[Len(s)] \in Whitespace
    THEN rstrip(SubSeq(s, 1, Len(s) - 1))
    ELSE s

\* str.strip()
strip(s) ==
    rstrip(lstrip(s))

\* str.split(sep): the pieces between the separators, empty pieces kept
RECURSIVE split(_, _)
split(s, sep) ==
    IF \A i \in 1..Len(s) : s[i] # sep
    THEN <<s>>
    ELSE LET k == CHOOSE i \in 1..Len(s) :
                      s[i] = sep /\ \A j \in 1..(i - 1) : s[j] # sep
         IN  <<SubSeq(s, 1, k - 1)>> \o split(SubSeq(s, k + 1, Len(s)), sep)

\* sep.join(parts)
RECURSIVE join(_, _)
join(sep, parts) ==
    IF parts = <<>> THEN <<>>
    ELSE IF Len(parts) = 1 THEN parts[1]
    ELSE parts[1] \o <<sep>> \o join(sep, Tail(parts))

\* dict.get(key, default)
dict_get(d, key, default) ==
    IF key \in DOMAIN d THEN d[key] ELSE default

(***************************************************************************)
(* The string literals of the two notebooks.                               *)
(***************************************************************************)
s_love ==
    <<"l","o","v","e">>
s_faith ==
    <<"f","a","i","t","h">>
s_hope ==
    <<"h","o","p","e">>
s_forgiveness ==
    <<"f","o","r","g","i","v","e","n","e","s","s">>
s_fear ==
    <<"f","e","a","r">>
s_amor ==
    <<"a","m","o","r">>
s_fe ==
    <<"f","e">>
s_esperanza ==
    <<"e","s","p","e","r","a","n","z","a">>
s_perdon ==
    <<"p","e","r","d","o_acute","n">>
s_miedo ==
    <<"m","i","e","d","o">>
s_joy ==
    <<"j","o","y">>
s_sadness ==
    <<"s","a","d","n","e","s","s">>
s_anger ==
    <<"a","n","g","e","r">>
s_trust ==
    <<"t","r","u","s","t">>
s_surprise ==
    <<"s","u","r","p","r","i","s","e">>
s_Alegria ==
    <<"A","l","e","g","r","i_acute","a">>
s_Tristeza ==
    <<"T","r","i","s","t","e","z","a">>
s_Ira ==
    <<"I","r","a">>
s_Miedo ==
    <<"M","i","e","d","o">>
s_Confianza ==
    <<"C","o","n","f","i","a","n","z","a">>
s_Sorpresa ==
    <<"S","o","r","p","r","e","s","a">>
s_neutral ==
    <<"n","e","u","t","r","a","l">>
s_disgust ==
    <<"d","i","s","g","u","s","t">>
s_shame ==
    <<"s","h","a","m","e">>
s_confidence ==
    <<"c","o","n","f","i","d","e","n","c","e">>
s_compassion ==
    <<"c","o","m","p","a","s","s","i","o","n">>
s_courage ==
    <<"c","o","u","r","a","g","e">>
s_peace ==
    <<"p","e","a","c","e">>
s_respect ==
    <<"r","e","s","p","e","c","t">>
s_guilt ==
    <<"g","u","i","l","t">>
s_gratitude ==
    <<"g","r","a","t","i","t","u","d","e">>
s_confusion ==
    <<"c","o","n","f","u","s","i","o","n">>
s_anticipation ==
    <<"a","n","t","i","c","i","p","a","t","i","o","n">>

\* str(NaN): what astype(str) makes of a missing label
s_nan ==
    <<"n","a","n">>

(***************************************************************************)
(* 04_translate_labels.ipynb, cell 27016980: the dictionaries and the two  *)
(* translation functions.                                                  *)
(***************************************************************************)
\* faulty variant of THEME_MAP: the accent of "perdon" lost
THEME_MAP_unaccented ==
    (s_love :> s_amor) @@ (s_faith :> s_fe) @@ (s_hope :> s_esperanza)
    @@ (s_forgiveness :> <<"p","e","r","d","o","n">>) @@ (s_fear :> s_miedo)

THEME_MAP ==
    (s_love :> s_amor) @@ (s_faith :> s_fe) @@ (s_hope :> s_esperanza)
    @@ (s_forgiveness :> s_perdon) @@ (s_fear :> s_miedo)

\* faulty variant of EMOTION_MAP: the value of the joy line pasted at trust
EMOTION_MAP_pasted ==
    (s_joy :> s_Alegria) @@ (s_sadness :> s_Tristeza) @@ (s_anger :> s_Ira)
    @@ (s_fear :> s_Miedo) @@ (s_trust :> s_Alegria)
    @@ (s_surprise :> s_Sorpresa)

EMOTION_MAP ==
    (s_joy :> s_Alegria) @@ (s_sadness :> s_Tristeza) @@ (s_anger :> s_Ira)
    @@ (s_fear :> s_Miedo) @@ (s_trust :> s_Confianza)
    @@ (s_surprise :> s_Sorpresa)

\* one label of a theme string: looked up trimmed, case-sensitively
\* faulty variant of translate_theme_label: the label lowercased for the lookup
translate_theme_label_lowercase(label) ==
    dict_get(THEME_MAP, lower(strip(label)), strip(label))

\* faulty variant of translate_theme_label: the label looked up untrimmed
translate_theme_label_late_strip(label) ==
    dict_get(THEME_MAP, label, strip(label))

translate_theme_label(label) ==
    dict_get(THEME_MAP, strip(label), strip(label))

translate_themes(theme_str) ==
    IF isna(theme_str)
    THEN <<>>
    ELSE LET labels == split(theme_str, ";")
         IN  join(";", [i \in 1..Len(labels) |-> translate_theme_label(labels[i])])

\* faulty variant of translate_emotion_raises: a missing emotion let through
translate_emotion_raises_never(emotion) ==
    FALSE

\* emotion.strip() raises AttributeError when emotion is a float (NaN)
translate_emotion_raises(emotion) ==
    isna(emotion)

\* faulty variant of translate_emotion: the argument looked up untrimmed
translate_emotion_unstripped(emotion) ==
    dict_get(EMOTION_MAP, lower(emotion), emotion)

translate_emotion(emotion) ==
    dict_get(EMOTION_MAP, lower(strip(emotion)), emotion)

(***************************************************************************)
(* State.                                                                  *)
(***************************************************************************)
VARIABLES
    en_dir,     \* EN_LABELED_DIR: file name -> rows of the English labeled file
    es_dir,     \* ES_PROCESSED_DIR: file name -> the Spanish cleaned file
    out_dir,    \* ES_OUTPUT_DIR: file name -> the Spanish labeled file
    files,      \* the list the glob returned
    pos,        \* how many files of the list the loop has gone through
    run,        \* "loop", "done" (list exhausted) or "raised" (exception)
    log,        \* the lines printed so far
    execution_count, \* how many times the translation cell has been started
    call,       \* the last call of a translation function: name, argument, result
    csv,        \* the annotation batch at CSV_PATH
    csv_before, \* the batch as the cleaning cell last read it
    cleaned,    \* whether the cleaning cell has run on csv
    batches,    \* the six labeled batches the merge cell reads
    combined    \* the combined dataset at OUTPUT

vars ==
    <<en_dir, es_dir, out_dir, files, pos, run, log, execution_count, call,
      csv, csv_before, cleaned, batches, combined>>

run_vars ==
    <<en_dir, es_dir, out_dir, files, pos, run, log, execution_count>>

clean_vars ==
    <<csv, csv_before, cleaned>>

merge_vars ==
    <<batches, combined>>

NoFile ==
    [exists |-> FALSE, rows |-> <<>>]

File(rows) ==
    [exists |-> TRUE, rows |-> rows]

NoCall ==
    [fn |-> "none", arg |-> <<>>, result |-> <<>>, raised |-> FALSE]

\* all sequences over S of length at most n
SeqUpTo(S, n) ==
    UNION {[1..k -> S] : k \in 0..n}

(***************************************************************************)
(* 04_translate_labels.ipynb, cell f7fc5e43: the translate-and-merge loop. *)
(***************************************************************************)
Books ==
    {"1_genesis", "2_exodus"}

EN_SUFFIX ==
    "_emotion_theme.csv"

ES_SUFFIX ==
    "_cleaned.csv"

EnNames ==
    {[stem |-> b, suffix |-> EN_SUFFIX] : b \in Books}

\* file.name.replace("_emotion_theme.csv", "_cleaned.csv")
es_file_name(name) ==
    IF name.suffix = EN_SUFFIX
    THEN [stem |-> name.stem, suffix |-> ES_SUFFIX]
    ELSE name

EsNames ==
    {[stem |-> b, suffix |-> ES_SUFFIX] : b \in Books}

\* out_path = ES_OUTPUT_DIR / file.name
out_file_name(name) ==
    name

\* Path.exists()
exists(dir, name) ==
    name \in DOMAIN dir /\ dir[name].exists

\* pd.read_csv raises FileNotFoundError on a path that does not exist
read_csv_raises(dir, name) ==
    ~exists(dir, name)

\* df_out["emotion"] = df_en["emotion"].apply(translate_emotion): pandas
\* aligns the new column on the index, and an index it lacks gets NaN
emotion_column(df_en, i) ==
    IF i \in 1..Len(df_en) THEN translate_emotion(df_en[i].emotion) ELSE NaN

\* df_out["theme"] = df_en["theme"].apply(translate_themes)
theme_column(df_en, i) ==
    IF i \in 1..Len(df_en) THEN translate_themes(df_en[i].theme) ELSE NaN

\* faulty variant of df_out: the labels joined on verse_id instead of the index
df_out_by_verse_id(df_en, df_es) ==
    [i \in 1..Len(df_es) |->
        LET same == {j \in 1..Len(df_en) : df_en[j].verse_id = df_es[i].verse_id}
            j == CHOOSE k \in same : \A m \in same : k <= m
        IN  [verse_id |-> df_es[i].verse_id,
             text     |-> df_es[i].text,
             emotion  |-> IF same = {} THEN NaN ELSE emotion_column(df_en, j),
             theme    |-> IF same = {} THEN NaN ELSE theme_column(df_en, j)]]

\* faulty variant of df_out: the English frame copied instead of the Spanish
df_out_from_english(df_en, df_es) ==
    [i \in 1..Len(df_en) |->
        [verse_id |-> df_en[i].verse_id,
         text     |-> df_en[i].text,
         emotion  |-> emotion_column(df_en, i),
         theme    |-> theme_column(df_en, i)]]

\* df_out: the Spanish rows with the two label columns set from the English
\* column of the same index (both frames carry read_csv's 0..n-1 index)
df_out(df_en, df_es) ==
    [i \in 1..Len(df_es) |->
        [verse_id |-> df_es[i].verse_id,
         text     |-> df_es[i].text,
         emotion  |-> emotion_column(df_en, i),
         theme    |-> theme_column(df_en, i)]]

\* the file the loop is at
file ==
    files[pos + 1]

es_file ==
    es_file_name(file)

\* faulty variant of es_missing: the existence check left out
es_missing_unchecked ==
    FALSE

\* "if not es_file.exists()"
es_missing ==
    ~exists(es_dir, es_file)

\* faulty variant of rows_mismatch: only a longer English file is caught
rows_mismatch_longer(df_en, df_es) ==
    Len(df_en) > Len(df_es)

\* "if len(df_en) != len(df_es)"
rows_mismatch(df_en, df_es) ==
    Len(df_en) # Len(df_es)

\* df_en["emotion"].apply(translate_emotion) raises on some row
apply_raises(df_en) ==
    \E i \in 1..Len(df_en) : translate_emotion_raises(df_en[i].emotion)

Printed(kind, name) ==
    [msg |-> kind, name |-> name]

Visiting ==
    run = "loop" /\ pos < Len(files)

\* faulty variant of Missing: the output left by an earlier run is removed
Missing_unlinking ==
    /\ Visiting
    /\ es_missing
    /\ log' = log \o <<Printed("Processing", file), Printed("Missing", es_file)>>
    /\ pos' = pos + 1
    /\ out_dir' = [out_dir EXCEPT ![out_file_name(file)] = NoFile]
    /\ UNCHANGED <<en_dir, es_dir, files, run>>
    /\ UNCHANGED <<execution_count, call, clean_vars, merge_vars>>

\* "if not es_file.exists(): print Missing; continue"
Missing ==
    /\ Visiting
    /\ es_missing
    /\ log' = log \o <<Printed("Processing", file), Printed("Missing", es_file)>>
    /\ pos' = pos + 1
    /\ UNCHANGED <<en_dir, es_dir, out_dir, files, run>>
    /\ UNCHANGED <<execution_count, call, clean_vars, merge_vars>>

\* "if len(df_en) != len(df_es): print Mismatch; continue"
Mismatch ==
    /\ Visiting
    /\ ~es_missing
    /\ ~read_csv_raises(es_dir, es_file)
    /\ rows_mismatch(en_dir[file], es_dir[es_file].rows)
    /\ log' = log \o <<Printed("Processing", file), Printed("Mismatch", file)>>
    /\ pos' = pos + 1
    /\ UNCHANGED <<en_dir, es_dir, out_dir, files, run>>
    /\ UNCHANGED <<execution_count, call, clean_vars, merge_vars>>

\* an exception stops the cell: pd.read_csv(es_file) on a path that is not
\* there, or df_en["emotion"].apply(translate_emotion) on a missing emotion,
\* which comes before the theme column, to_csv and the next file
Raised ==
    /\ Visiting
    /\ ~es_missing
    /\ \/ read_csv_raises(es_dir, es_file)
       \/ /\ ~rows_mismatch(en_dir[file], es_dir[es_file].rows)
          /\ apply_raises(en_dir[file])
    /\ log' = log \o <<Printed("Processing", file)>>
    /\ run' = "raised"
    /\ UNCHANGED <<en_dir, es_dir, out_dir, files, pos>>
    /\ UNCHANGED <<execution_count, call, clean_vars, merge_vars>>

\* faulty variant of Saved: the labeled frame written over the cleaned file
Saved_in_place ==
    /\ Visiting
    /\ ~es_missing
    /\ ~read_csv_raises(es_dir, es_file)
    /\ ~rows_mismatch(en_dir[file], es_dir[es_file].rows)
    /\ ~apply_raises(en_dir[file])
    /\ es_dir' = [es_dir EXCEPT ![es_file] =
                      File(df_out(en_dir[file], es_dir[es_file].rows))]
    /\ log' = log \o <<Printed("Processing", file),
                       Printed("Saved", out_file_name(file))>>
    /\ pos' = pos + 1
    /\ UNCHANGED <<en_dir, out_dir, files, run>>
    /\ UNCHANGED <<execution_count, call, clean_vars, merge_vars>>

\* both columns translated, df_out.to_csv(out_path), print Saved
Saved ==
    /\ Visiting
    /\ ~es_missing
    /\ ~read_csv_raises(es_dir, es_file)
    /\ ~rows_mismatch(en_dir[file], es_dir[es_file].rows)
    /\ ~apply_raises(en_dir[file])
    /\ out_dir' = [out_dir EXCEPT ![out_file_name(file)] =
                       File(df_out(en_dir[file], es_dir[es_file].rows))]
    /\ log' = log \o <<Printed("Processing", file),
                       Printed("Saved", out_file_name(file))>>
    /\ pos' = pos + 1
    /\ UNCHANGED <<en_dir, es_dir, files, run>>
    /\ UNCHANGED <<execution_count, call, clean_vars, merge_vars>>

\* the for loop runs out of files
LoopEnd ==
    /\ run = "loop"
    /\ pos = Len(files)
    /\ run' = "done"
    /\ UNCHANGED <<en_dir, es_dir, out_dir, files, pos, log>>
    /\ UNCHANGED <<execution_count, call, clean_vars, merge_vars>>

(***************************************************************************)
(* The files the run may find.  An English row's verse is its position in  *)
(* the book; the Spanish file lists its own verses.                        *)
(***************************************************************************)
VerseIds ==
    {1, 2}

s_Sadness_padded ==
    <<" ","S","a","d","n","e","s","s">>

s_faith_peace ==
    s_faith \o <<" ",";"," ">> \o s_peace

\* the (emotion, theme) cells of an English row
LabelCases ==
    { [emotion |-> s_Sadness_padded, theme |-> s_faith_peace],
      [emotion |-> s_neutral,        theme |-> NaN],
      [emotion |-> NaN,              theme |-> s_hope] }

EnRow(i, c) ==
    [verse_id |-> i, text |-> <<"kjv", i>>, emotion |-> c.emotion,
     theme |-> c.theme]

EsRow(v) ==
    [verse_id |-> v, text |-> <<"rv60", v>>]

EnFiles ==
    { [i \in 1..Len(cs) |-> EnRow(i, cs[i])] : cs \in SeqUpTo(LabelCases, MaxRows) }

EsFiles ==
    {NoFile} \cup
    { File([i \in 1..Len(vs) |-> EsRow(vs[i])]) : vs \in SeqUpTo(VerseIds, MaxRows) }

\* sorted(EnNames): one listing order of the directory
FileList ==
    <<[stem |-> "1_genesis", suffix |-> EN_SUFFIX],
      [stem |-> "2_exodus", suffix |-> EN_SUFFIX]>>

InitRun ==
    /\ en_dir \in [EnNames -> EnFiles]
    /\ es_dir \in [EsNames -> EsFiles]
    /\ out_dir = [n \in EnNames |-> NoFile]
    /\ files = FileList
    /\ pos = 0
    /\ run = "loop"
    /\ log = <<>>
    /\ execution_count = 1

\* no translation function called on its own
NoCalls ==
    call = NoCall

\* the annotation cells of viz.ipynb not run, their files empty
NoAnnotation ==
    /\ csv = <<>>
    /\ csv_before = <<>>
    /\ cleaned = FALSE
    /\ batches = <<>>
    /\ combined = NoFile

Init ==
    InitRun /\ NoCalls /\ NoAnnotation

Next ==
    \/ Missing
    \/ Mismatch
    \/ Raised
    \/ Saved
    \/ LoopEnd

Spec ==
    Init /\ [][Next]_vars

(***************************************************************************)
(* Properties of the translation run.                                      *)
(***************************************************************************)
\* the Spanish cleaned file that belongs to an English labeled file
Counterpart(n) ==
    [stem |-> n.stem, suffix |-> "_cleaned.csv"]

HasLine(kind, name) ==
    \E k \in 1..Len(log) : log[k] = Printed(kind, name)

\* the loop has gone through file n
Visited(n) ==
    \E k \in 1..pos : files[k] = n

SameRowCount(n) ==
    /\ es_dir[Counterpart(n)].exists
    /\ Len(en_dir[n]) = Len(es_dir[Counterpart(n)].rows)

\* row i of the output carries the translated labels of English row j
CarriesLabelsOf(n, i, j) ==
    /\ out_dir[n].rows[i].emotion = translate_emotion(en_dir[n][j].emotion)
    /\ out_dir[n].rows[i].theme = translate_themes(en_dir[n][j].theme)

\* C1: once the run has ended, every English file whose Spanish counterpart
\* exists with the same number of rows has an output of that many rows whose
\* row i carries translate_emotion / translate_themes of English row i.
C1_EveryAlignedFileIsTranslated ==
    run # "loop" =>
        \A n \in EnNames :
            SameRowCount(n) =>
                /\ out_dir[n].exists
                /\ Len(out_dir[n].rows) = Len(es_dir[Counterpart(n)].rows)
                /\ \A i \in 1..Len(out_dir[n].rows) : CarriesLabelsOf(n, i, i)

\* C2 as stated: every row of a written output carries the labels of the
\* English row that has the same verse identifier.
C2_LabelsFollowVerseIdentity ==
    \A n \in EnNames :
        out_dir[n].exists =>
            \A i \in 1..Len(out_dir[n].rows) :
                \E j \in 1..Len(en_dir[n]) :
                    /\ en_dir[n][j].verse_id = out_dir[n].rows[i].verse_id
                    /\ CarriesLabelsOf(n, i, j)

\* C2 as amended: labels are transferred by row position: row i of a
\* written output carries the translated labels of English row i, whatever
\* the verse identifiers of the two rows.
C2_LabelsFollowRowPosition ==
    \A n \in EnNames :
        out_dir[n].exists =>
            /\ Len(out_dir[n].rows) = Len(en_dir[n])
            /\ \A i \in 1..Len(out_dir[n].rows) : CarriesLabelsOf(n, i, i)

\* a written output with a row whose verse differs from the English verse at
\* its position, and whose labels are not those of the English row of its verse
C2_Witness ==
    \E n \in EnNames :
        /\ out_dir[n].exists
        /\ \E i \in 1..Len(out_dir[n].rows) :
               /\ out_dir[n].rows[i].verse_id # en_dir[n][i].verse_id
               /\ CarriesLabelsOf(n, i, i)
               /\ \A j \in 1..Len(en_dir[n]) :
                      en_dir[n][j].verse_id = out_dir[n].rows[i].verse_id
                          => ~CarriesLabelsOf(n, i, j)

\* C3: a file whose Spanish counterpart has a different number of rows is
\* never written and never printed as saved, and once the loop has gone
\* through it a Mismatch line names it.
C3_MismatchIsReportedAndSkipped ==
    \A n \in EnNames :
        (/\ es_dir[Counterpart(n)].exists
         /\ Len(en_dir[n]) # Len(es_dir[Counterpart(n)].rows)) =>
            /\ ~out_dir[n].exists
            /\ ~HasLine("Saved", n)
            /\ Visited(n) => HasLine("Mismatch", n)

\* the loop went through a file with a different row count and then saved
\* the file after it
C3_Witness ==
    \E n, m \in EnNames :
        /\ es_dir[Counterpart(n)].exists
        /\ Len(en_dir[n]) # Len(es_dir[Counterpart(n)].rows)
        /\ Visited(n)
        /\ HasLine("Mismatch", n)
        /\ m # n
        /\ out_dir[m].exists

\* C4: a file whose Spanish counterpart does not exist is never written,
\* no exception is raised at it, and once the loop has gone through it a
\* Missing line names the counterpart.
C4_MissingIsReportedAndSkipped ==
    \A n \in EnNames :
        ~es_dir[Counterpart(n)].exists =>
            /\ ~out_dir[n].exists
            /\ ~HasLine("Saved", n)
            /\ ~(run = "raised" /\ files[pos + 1] = n)
            /\ Visited(n) => HasLine("Missing", Counterpart(n))

\* the loop went through a file without counterpart and reached the end
C4_Witness ==
    \E n \in EnNames :
        /\ ~es_dir[Counterpart(n)].exists
        /\ Visited(n)
        /\ HasLine("Missing", Counterpart(n))
        /\ run = "done"

Outcomes(n) ==
    {Printed("Saved", n), Printed("Missing", Counterpart(n)),
     Printed("Mismatch", n)}

\* C5: once the run has ended, every English file was visited exactly once,
\* has exactly one of the outcomes saved, missing and mismatch, and has an
\* output exactly when its counterpart exists with an equal row count.
C5_EveryFileEndsInOneOutcome ==
    run # "loop" =>
        \A n \in EnNames :
            /\ Cardinality({k \in 1..Len(log) :
                               log[k] = Printed("Processing", n)}) = 1
            /\ Cardinality({k \in 1..Len(log) : log[k] \in Outcomes(n)}) = 1
            /\ (out_dir[n].exists /\ HasLine("Saved", n)) <=> SameRowCount(n)

\* C6: a written output has the rows of the Spanish cleaned file, in their
\* order, each with its Spanish columns as they were and the two label
\* columns beside them.
C6_SpanishColumnsAndRowsKept ==
    \A n \in EnNames :
        out_dir[n].exists =>
            LET df_es == es_dir[Counterpart(n)].rows
                rows  == out_dir[n].rows
            IN  /\ Len(rows) = Len(df_es)
                /\ \A i \in 1..Len(rows) :
                       /\ DOMAIN rows[i] = DOMAIN df_es[i] \cup {"emotion", "theme"}
                       /\ \A c \in DOMAIN df_es[i] : rows[i][c] = df_es[i][c]

\* a written output of two rows whose verses are not in the English order
C6_Witness ==
    \E n \in EnNames :
        /\ out_dir[n].exists
        /\ Len(out_dir[n].rows) = 2
        /\ out_dir[n].rows[1].verse_id > out_dir[n].rows[2].verse_id
        /\ out_dir[n].rows[1].emotion # out_dir[n].rows[2].emotion

\* the emotion labels of the annotation set
CanonicalEmotions ==
    {s_joy, s_sadness, s_anger, s_fear, s_disgust, s_surprise, s_neutral}

\* C7: every emotion of the annotation set has a Spanish label, so no row
\* of a written output has an English emotion of that set.
C7_NoEnglishEmotionInOutput ==
    \A n \in EnNames :
        out_dir[n].exists =>
            \A i \in 1..Len(out_dir[n].rows) :
                /\ out_dir[n].rows[i].emotion \notin CanonicalEmotions
                /\ \A e \in CanonicalEmotions :
                       lower(strip(en_dir[n][i].emotion)) = e
                           => e \in DOMAIN EMOTION_MAP

(***************************************************************************)
(* The two translation functions called on their own.                      *)
(***************************************************************************)
\* most labels in one theme string
MaxLabels ==
    2

upper_char(c) ==
    IF \E i \in 1..Len(LowerChars) : LowerChars[i] = c
    THEN UpperChars[CHOOSE i \in 1..Len(LowerChars) : LowerChars[i] = c]
    ELSE c

\* the spellings of a word a cell may hold: as it is, capitalised, in
\* capitals, and with a blank before or after
Spellings(w) ==
    LET cased == {w, [i \in 1..Len(w) |-> IF i = 1 THEN upper_char(w[i]) ELSE w[i]],
                  [i \in 1..Len(w) |-> upper_char(w[i])]}
    IN  cased \cup {<<" ">> \o c : c \in cased} \cup {c \o <<" ">> : c \in cased}

EmotionWords ==
    DOMAIN EMOTION_MAP \cup {s_neutral, s_disgust, s_peace, s_Alegria, s_Miedo}

\* the arguments translate_emotion is called with
EmotionArgs ==
    {NaN} \cup UNION {Spellings(w) : w \in EmotionWords}

\* one label of a theme string, as written between the semicolons
ThemeLabelForms ==
    DOMAIN THEME_MAP \cup
    {s_peace, s_amor, <<>>, <<" ">> \o s_love, s_faith \o <<" ">>,
     <<"L">> \o Tail(s_love)}

\* the arguments translate_themes is called with
ThemeArgs ==
    {NaN} \cup
    {join(";", ls) : ls \in SeqUpTo(ThemeLabelForms, MaxLabels) \ {<<>>}}

CallTranslateEmotion ==
    /\ \E emotion \in EmotionArgs :
           call' = [fn     |-> "translate_emotion",
                    arg    |-> emotion,
                    result |-> IF translate_emotion_raises(emotion)
                               THEN <<>> ELSE translate_emotion(emotion),
                    raised |-> translate_emotion_raises(emotion)]
    /\ UNCHANGED <<run_vars, clean_vars, merge_vars>>

CallTranslateThemes ==
    /\ \E theme_str \in ThemeArgs :
           call' = [fn     |-> "translate_themes",
                    arg    |-> theme_str,
                    result |-> translate_themes(theme_str),
                    raised |-> FALSE]
    /\ UNCHANGED <<run_vars, clean_vars, merge_vars>>

\* the translation loop not run: its directories empty
NoRun ==
    /\ en_dir = <<>>
    /\ es_dir = <<>>
    /\ out_dir = <<>>
    /\ files = <<>>
    /\ pos = 0
    /\ run = "done"
    /\ log = <<>>
    /\ execution_count = 0

InitLabels ==
    NoRun /\ NoCalls /\ NoAnnotation

\* the English emotion a verse of the corpus may carry
EnglishEmotionLabels ==
    DOMAIN EMOTION_MAP \cup {s_neutral, s_disgust}

\* the English theme string a verse of the corpus may carry
EnglishThemeStrings ==
    {join(";", ls) :
        ls \in SeqUpTo(DOMAIN THEME_MAP \cup {s_peace}, MaxLabels) \ {<<>>}}

Selected(hit) ==
    IF hit THEN <<"selected">> ELSE <<>>

\* the recommender filtering the Spanish corpus by emotion, once per query:
\* the query label is translated and compared with the verse's translated
\* emotion
FilterByEmotion ==
    /\ call = NoCall
    /\ \E query \in DOMAIN EMOTION_MAP, label \in EnglishEmotionLabels :
           call' = [fn     |-> "filter_emotion",
                    arg    |-> <<query, label>>,
                    result |-> Selected(translate_emotion(label)
                                            = translate_emotion(query)),
                    raised |-> FALSE]
    /\ UNCHANGED <<run_vars, clean_vars, merge_vars>>

\* the recommender filtering the Spanish corpus by theme, once per query:
\* the translated query label is looked for among the verse's translated
\* themes
FilterByTheme ==
    /\ call = NoCall
    /\ \E query \in DOMAIN THEME_MAP, theme_str \in EnglishThemeStrings :
           LET themes == split(translate_themes(theme_str), ";")
           IN  call' = [fn     |-> "filter_theme",
                        arg    |-> <<query, theme_str>>,
                        result |-> Selected(\E i \in 1..Len(themes) :
                                       themes[i] = translate_themes(query)),
                        raised |-> FALSE]
    /\ UNCHANGED <<run_vars, clean_vars, merge_vars>>

NextLabels ==
    \/ CallTranslateEmotion
    \/ CallTranslateThemes
    \/ FilterByEmotion
    \/ FilterByTheme

SpecLabels ==
    InitLabels /\ [][NextLabels]_vars

\* the five theme tags of the theme classifier
CanonicalThemes ==
    {s_love, s_faith, s_hope, s_forgiveness, s_fear}

\* the Spanish equivalent of a canonical theme
SpanishTheme(label) ==
    CASE label = s_love        -> s_amor
      [] label = s_faith       -> s_fe
      [] label = s_hope        -> s_esperanza
      [] label = s_forgiveness -> s_perdon
      [] label = s_fear        -> s_miedo

AllCanonicalThemes(theme_str) ==
    /\ ~isna(theme_str)
    /\ \A i \in 1..Len(split(theme_str, ";")) :
           split(theme_str, ";")[i] \in CanonicalThemes

\* C8: a theme string of canonical themes only is translated to as many
\* labels, in the same order, each the Spanish equivalent of the label at
\* its position.
C8_CanonicalThemesTranslatedInOrder ==
    (call.fn = "translate_themes" /\ AllCanonicalThemes(call.arg)) =>
        LET labels  == split(call.arg, ";")
            spanish == split(call.result, ";")
        IN  /\ Len(spanish) = Len(labels)
            /\ \A i \in 1..Len(labels) : spanish[i] = SpanishTheme(labels[i])

\* translate_themes was called with two different canonical themes, the
\* accented one among them
C8_Witness ==
    /\ call.fn = "translate_themes"
    /\ AllCanonicalThemes(call.arg)
    /\ Len(split(call.arg, ";")) = 2
    /\ split(call.arg, ";")[1] = s_forgiveness
    /\ split(call.arg, ";")[2] = s_fear
    /\ call.result = s_perdon \o <<";">> \o s_miedo

(***************************************************************************)
(* data/evaluation/viz.ipynb, cell 4ef2aabe: the label-cleaning cell.      *)
(***************************************************************************)
\* longest annotation batch, in rows
MaxBatchRows ==
    2

EMOTIONS_MAIN ==
    <<s_joy, s_sadness, s_anger, s_fear, s_surprise, s_neutral, s_disgust>>

\* faulty variant of label_corrections: a canonical emotion among the keys
label_corrections_chained ==
    (s_hope :> s_joy) @@ (s_trust :> s_neutral) @@ (s_shame :> s_sadness)
    @@ (s_confidence :> s_joy) @@ (s_compassion :> s_joy)
    @@ (s_courage :> s_joy) @@ (s_peace :> s_neutral)
    @@ (s_respect :> s_neutral) @@ (s_guilt :> s_sadness)
    @@ (s_gratitude :> s_joy) @@ (s_confusion :> s_neutral)
    @@ (s_anticipation :> s_joy) @@ (s_neutral :> s_joy)

label_corrections ==
    (s_hope :> s_joy) @@ (s_trust :> s_neutral) @@ (s_shame :> s_sadness)
    @@ (s_confidence :> s_joy) @@ (s_compassion :> s_joy)
    @@ (s_courage :> s_joy) @@ (s_peace :> s_neutral)
    @@ (s_respect :> s_neutral) @@ (s_guilt :> s_sadness)
    @@ (s_gratitude :> s_joy) @@ (s_confusion :> s_neutral)
    @@ (s_anticipation :> s_joy)

\* Series.astype(str): a missing value becomes the string "nan"
astype_str(v) ==
    IF isna(v) THEN s_nan ELSE v

\* faulty variant of normalize_label: the label lowercased but not trimmed
normalize_label_unstripped(v) ==
    lower(astype_str(v))

\* df['label'].astype(str).str.strip().str.lower()
normalize_label(v) ==
    lower(strip(astype_str(v)))

\* faulty variant of replace_label: no label remapped
replace_label_unmapped(label) ==
    label

\* df['label'].replace(label_corrections)
replace_label(label) ==
    dict_get(label_corrections, label, label)

\* Series.isin(values)
isin(v, values) ==
    \E k \in 1..Len(values) : values[k] = v

\* faulty variant of valid_emotion: the filter left out
valid_emotion_unfiltered(row) ==
    TRUE

\* df['label'].isin(EMOTIONS_MAIN)
valid_emotion(row) ==
    isin(row.label, EMOTIONS_MAIN)

\* faulty variant of clean_labels: the id column renumbered after the filter
clean_labels_renumbered(df) ==
    LET remapped == [i \in 1..Len(df) |->
                        [df[i] EXCEPT !.label = replace_label(normalize_label(@))]]
        kept == SelectSeq(remapped, valid_emotion)
    IN  [i \in 1..Len(kept) |-> [kept[i] EXCEPT !.id = i - 1]]

\* the frame the cell writes back: labels normalised and remapped, then the
\* rows with a label outside EMOTIONS_MAIN dropped
clean_labels(df) ==
    LET remapped == [i \in 1..Len(df) |->
                        [df[i] EXCEPT !.label = replace_label(normalize_label(@))]]
    IN  SelectSeq(remapped, valid_emotion)

\* the cells read_csv takes for a missing value
na_values ==
    {<<>>, s_nan, <<"N","a","N">>, <<"N","A">>, <<"n","u","l","l">>}

\* df.to_csv(CSV_PATH, index=False): a missing label is written as an empty
\* cell; id and verse_id, an integer and an identifier, are written as they are
to_csv(df) ==
    [i \in 1..Len(df) |->
        [df[i] EXCEPT !.label = IF isna(@) THEN <<>> ELSE @]]

\* pd.read_csv(CSV_PATH) of the rows written: a cell that is a missing-value
\* marker is read as NaN
read_csv(rows) ==
    [i \in 1..Len(rows) |->
        [rows[i] EXCEPT !.label = IF @ \in na_values THEN NaN ELSE @]]

\* the batch as the next read_csv(CSV_PATH) finds it after the cell has run
cleaned_file(df) ==
    read_csv(to_csv(clean_labels(df)))

\* read_csv(CSV_PATH), clean, to_csv(CSV_PATH): the file is overwritten
CleanLabels ==
    /\ csv_before' = csv
    /\ csv' = cleaned_file(csv)
    /\ cleaned' = TRUE
    /\ UNCHANGED <<run_vars, call, merge_vars>>

(***************************************************************************)
(* The batches the cell may find: rows of id, verse_id, label as the       *)
(* annotator returned them.                                                *)
(***************************************************************************)
VerseKeys ==
    {"genesis_1_1", "john_3_16"}

s_plea ==
    <<"p","l","e","a">>

\* the label cells of a batch
LabelCells ==
    {s_joy, s_disgust, <<" ","A","n","g","e","r">>, s_hope,
     <<"T","r","u","s","t"," ">>, s_plea, NaN}

BatchFiles ==
    UNION { { [i \in 1..k |-> [id |-> i - 1, verse_id |-> vs[i], label |-> ls[i]]] :
                vs \in [1..k -> VerseKeys], ls \in [1..k -> LabelCells] } :
            k \in 0..MaxBatchRows }

InitClean ==
    /\ NoRun
    /\ NoCalls
    /\ csv \in BatchFiles
    /\ csv_before = csv
    /\ cleaned = FALSE
    /\ batches = <<>>
    /\ combined = NoFile

NextClean ==
    CleanLabels

SpecClean ==
    InitClean /\ [][NextClean]_vars

\* C9: once the cleaning cell has run, the label of every row left in the
\* batch is one of the seven canonical emotions.
C9_CleanedLabelsAreCanonical ==
    cleaned =>
        \A i \in 1..Len(csv) : csv[i].label \in CanonicalEmotions

\* the cell ran on a batch with a label outside the set in every row,
\* dropped one row and kept the other with its label remapped
C9_Witness ==
    /\ cleaned
    /\ Len(csv_before) = 2
    /\ \A i \in 1..Len(csv_before) : csv_before[i].label \notin CanonicalEmotions
    /\ Len(csv) = 1
    /\ csv[1].label \in CanonicalEmotions

(***************************************************************************)
(* data/evaluation/viz.ipynb, cell c10c3830: the merge of the labeled      *)
(* batches.                                                                *)
(***************************************************************************)
\* most rows in the six batches together
MaxMergeRows ==
    3

\* CSV1 .. CSV6
NumBatches ==
    6

\* pd.concat([df1, ..., df6], ignore_index=True)
RECURSIVE concat(_)
concat(dfs) ==
    IF dfs = <<>> THEN <<>> ELSE Head(dfs) \o concat(Tail(dfs))

\* faulty variant of drop_duplicates: subset=['id'], as the comment offers
drop_duplicates_by_id(df) ==
    LET first == {i \in 1..Len(df) : \A j \in 1..(i - 1) : df[j].id # df[i].id}
        Kept[i \in 0..Len(df)] ==
            IF i = 0 THEN <<>>
            ELSE IF i \in first THEN Append(Kept[i - 1], df[i]) ELSE Kept[i - 1]
    IN  Kept[Len(df)]

\* df.drop_duplicates(subset=['verse_id']): of the rows with one verse_id
\* the first is kept, the order of the kept rows unchanged
drop_duplicates(df) ==
    LET first == {i \in 1..Len(df) :
                     \A j \in 1..(i - 1) : df[j].verse_id # df[i].verse_id}
        Kept[i \in 0..Len(df)] ==
            IF i = 0 THEN <<>>
            ELSE IF i \in first THEN Append(Kept[i - 1], df[i]) ELSE Kept[i - 1]
    IN  Kept[Len(df)]

\* df_combined['id'] = range(len(df_combined))
renumber(df) ==
    [i \in 1..Len(df) |-> [df[i] EXCEPT !.id = i - 1]]

df_combined(dfs) ==
    renumber(drop_duplicates(concat(dfs)))

\* the cell: read the six batches, concatenate, drop duplicates, renumber,
\* write OUTPUT
Merge ==
    /\ combined' = File(df_combined(batches))
    /\ UNCHANGED <<run_vars, call, clean_vars, batches>>

(***************************************************************************)
(* The batches the merge may find.                                         *)
(***************************************************************************)
MergeLabels ==
    {s_joy, s_trust}

\* the annotated verses of all batches, in file order
MergeRows ==
    SeqUpTo([verse_id : VerseKeys, label : MergeLabels], MaxMergeRows)

\* which batch each of n rows is in: batch numbers that never decrease
Owners(n) ==
    {o \in [1..n -> 1..NumBatches] : \A i \in 1..(n - 1) : o[i] <= o[i + 1]}

\* the rows of batch b, numbered from 0 as the annotator was told
BatchOf(rows, owner, b) ==
    LET mine == {i \in 1..Len(rows) : owner[i] = b}
        lo   == CHOOSE i \in mine : \A j \in mine : i <= j
    IN  IF mine = {} THEN <<>>
        ELSE [i \in 1..Cardinality(mine) |->
                 [id       |-> i - 1,
                  verse_id |-> rows[lo + i - 1].verse_id,
                  label    |-> rows[lo + i - 1].label]]

InitMerge ==
    /\ NoRun
    /\ NoCalls
    /\ csv = <<>>
    /\ csv_before = <<>>
    /\ cleaned = FALSE
    /\ \E rows \in MergeRows :
           \E owner \in Owners(Len(rows)) :
               batches = [b \in 1..NumBatches |-> BatchOf(rows, owner, b)]
    /\ combined = NoFile

\* the cleaning cell run with CSV_PATH set to batch b ("Adjust if necessary")
CleanBatch ==
    /\ \E b \in 1..NumBatches :
           batches' = [batches EXCEPT ![b] = cleaned_file(@)]
    /\ UNCHANGED <<run_vars, call, clean_vars, combined>>

NextMerge ==
    \/ Merge
    \/ CleanBatch

SpecMerge ==
    InitMerge /\ [][NextMerge]_vars

\* C10: the combined dataset never holds two rows with the same verse_id.
C10_CombinedVerseIdsUnique ==
    combined.exists =>
        \A i, j \in 1..Len(combined.rows) :
            i # j => combined.rows[i].verse_id # combined.rows[j].verse_id

\* the merge ran on batches that repeat a verse, within one batch or across
\* two, and kept two rows
C10_Witness ==
    /\ combined.exists
    /\ Len(combined.rows) = 2
    /\ Len(concat(batches)) > Len(combined.rows)

\* C11: every label of the combined dataset the merge writes is one of the
\* seven canonical emotions.
C11_CombinedLabelsAreCanonical ==
    combined.exists =>
        \A i \in 1..Len(combined.rows) :
            combined.rows[i].label \in CanonicalEmotions

Injective(map) ==
    \A k1, k2 \in DOMAIN map : k1 # k2 => map[k1] # map[k2]

\* C12: different keys of EMOTION_MAP have different Spanish emotions and
\* different keys of THEME_MAP different Spanish themes, and a filter of the
\* Spanish corpus by a translated query label selects a verse exactly when
\* its English emotion is the query label, or its English themes hold it.
C12_TranslationInjectiveOnKeys ==
    /\ Injective(EMOTION_MAP)
    /\ Injective(THEME_MAP)
    /\ call.fn = "filter_emotion" =>
           (call.result = Selected(TRUE) <=> call.arg[2] = call.arg[1])
    /\ call.fn = "filter_theme" =>
           (call.result = Selected(TRUE) <=>
                \E i \in 1..Len(split(call.arg[2], ";")) :
                    split(call.arg[2], ";")[i] = call.arg[1])

\* the corpus filtered by the theme fear selected a verse of two themes
C12_Witness ==
    /\ call.fn = "filter_theme"
    /\ call.arg[1] = s_fear
    /\ Len(split(call.arg[2], ";")) = 2
    /\ call.result = Selected(TRUE)

\* s is key k written in any case between any number of whitespace characters
EqualsUpToCaseAndSpace(s, k) ==
    \E a \in 0..Len(s) :
        /\ a + Len(k) <= Len(s)
        /\ \A i \in 1..Len(s) :
               IF i > a /\ i <= a + Len(k)
               THEN lower_char(s[i]) = k[i - a]
               ELSE s[i] \in Whitespace

\* C13: translate_emotion returns the Spanish value of the key its argument
\* equals up to case and surrounding whitespace, and returns any other
\* string unchanged, with its case and whitespace.
C13_EmotionLookupIgnoresCaseAndSpace ==
    (call.fn = "translate_emotion" /\ ~call.raised) =>
        /\ \A k \in DOMAIN EMOTION_MAP :
               EqualsUpToCaseAndSpace(call.arg, k) => call.result = EMOTION_MAP[k]
        /\ (\A k \in DOMAIN EMOTION_MAP : ~EqualsUpToCaseAndSpace(call.arg, k))
               => call.result = call.arg

\* a capitalised key with a blank before it was translated
C13_Witness ==
    /\ call.fn = "translate_emotion"
    /\ call.arg = <<" ", "S">> \o Tail(s_sadness)
    /\ call.result = s_Tristeza

\* the label a theme string holds at position i, trimmed and translated
ExpectedTheme(label) ==
    IF strip(label) \in DOMAIN THEME_MAP
    THEN THEME_MAP[strip(label)]
    ELSE strip(label)

\* C14: translate_themes returns the empty string for a missing value;
\* otherwise its result has as many ';'-separated labels as its argument,
\* label i being the Spanish value of the trimmed label i of the argument
\* when that is exactly a key of THEME_MAP and the trimmed label otherwise.
C14_ThemesTranslatedLabelByLabel ==
    call.fn = "translate_themes" =>
        IF isna(call.arg)
        THEN call.result = <<>>
        ELSE LET labels == split(call.arg, ";")
                 themes == split(call.result, ";")
             IN  /\ Len(themes) = Len(labels)
                 /\ \A i \in 1..Len(labels) : themes[i] = ExpectedTheme(labels[i])

\* a capitalised key is left alone next to a padded key that is translated
C14_Witness ==
    /\ call.fn = "translate_themes"
    /\ call.arg = <<"L">> \o Tail(s_love) \o <<";", " ">> \o s_love
    /\ call.result = <<"L">> \o Tail(s_love) \o <<";">> \o s_amor

\* C15: translating the result of translate_emotion again, or the result of
\* translate_themes again, returns it unchanged.
C15_TranslationIdempotent ==
    /\ (call.fn = "translate_emotion" /\ ~call.raised) =>
           translate_emotion(call.result) = call.result
    /\ call.fn = "translate_themes" =>
           translate_themes(call.result) = call.result

\* an emotion that is already Spanish was translated
C15_Witness ==
    /\ call.fn = "translate_emotion"
    /\ call.arg = s_Miedo
    /\ call.result = s_Miedo

\* the run stopped with an exception while it was at file n
StoppedAt(n) ==
    run = "raised" /\ files[pos + 1] = n

HasMissingEmotion(n) ==
    \E i \in 1..Len(en_dir[n]) : isna(en_dir[n][i].emotion)

\* C16: a missing theme of an English row is an empty theme in the output;
\* a missing emotion in an English file that reaches translation stops the
\* run at that file, with no output for it and no later file processed or
\* written, while the outputs of the files saved before it are still there.
C16_MissingThemeEmptyMissingEmotionAborts ==
    /\ \A n \in EnNames :
           out_dir[n].exists =>
               \A i \in 1..Len(out_dir[n].rows) :
                   isna(en_dir[n][i].theme) => out_dir[n].rows[i].theme = <<>>
    /\ \A n \in EnNames :
           (SameRowCount(n) /\ HasMissingEmotion(n)) =>
               /\ ~Visited(n)
               /\ ~out_dir[n].exists
               /\ run # "done"
    /\ \A n \in EnNames :
           (StoppedAt(n) /\ exists(es_dir, Counterpart(n))) =>
               /\ SameRowCount(n) /\ HasMissingEmotion(n)
               /\ \A j \in (pos + 2)..Len(files) :
                      /\ ~HasLine("Processing", files[j])
                      /\ ~out_dir[files[j]].exists
               /\ \A j \in 1..pos :
                      HasLine("Saved", files[j]) =>
                          /\ out_dir[files[j]].exists
                          /\ Len(out_dir[files[j]].rows) = Len(en_dir[files[j]])

\* the run stopped at the second file on a missing emotion after the first
\* file was saved with an empty theme for a missing one
C16_Witness ==
    /\ StoppedAt(files[2])
    /\ HasMissingEmotion(files[2])
    /\ out_dir[files[1]].exists
    /\ \E i \in 1..Len(en_dir[files[1]]) :
           /\ isna(en_dir[files[1]][i].theme)
           /\ out_dir[files[1]].rows[i].theme = <<>>

(***************************************************************************)
(* The translation cell run again over the same directories, with outputs  *)
(* of an earlier run already in ES_OUTPUT_DIR.                             *)
(***************************************************************************)
\* most rows in a file of the repeated run
MaxRerunRows ==
    1

\* most times the cell is started
MaxRuns ==
    2

\* a labeled file an earlier run left in ES_OUTPUT_DIR
StaleFile ==
    File(<<[verse_id |-> 2, text |-> <<"rv60", 2>>, emotion |-> s_Alegria,
            theme |-> s_fe]>>)

RerunEnFiles ==
    { [i \in 1..Len(cs) |-> EnRow(i, cs[i])] :
          cs \in SeqUpTo(LabelCases, MaxRerunRows) }

RerunEsFiles ==
    {NoFile} \cup
    { File([i \in 1..Len(vs) |-> EsRow(vs[i])]) :
          vs \in SeqUpTo(VerseIds, MaxRerunRows) }

InitRerun ==
    /\ en_dir \in [EnNames -> RerunEnFiles]
    /\ es_dir \in [EsNames -> RerunEsFiles]
    /\ out_dir \in [EnNames -> {NoFile, StaleFile}]
    /\ files = FileList
    /\ pos = 0
    /\ run = "loop"
    /\ log = <<>>
    /\ execution_count = 1
    /\ NoCalls
    /\ NoAnnotation

\* the cell started again after it ended: the glob lists the same files, the
\* cell's printed output starts empty
RunAgain ==
    /\ run \in {"done", "raised"}
    /\ execution_count < MaxRuns
    /\ execution_count' = execution_count + 1
    /\ files' = FileList
    /\ pos' = 0
    /\ run' = "loop"
    /\ log' = <<>>
    /\ UNCHANGED <<en_dir, es_dir, out_dir>>
    /\ UNCHANGED <<call, clean_vars, merge_vars>>

NextRerun ==
    \/ Missing
    \/ Mismatch
    \/ Raised
    \/ Saved
    \/ LoopEnd
    \/ RunAgain

SpecRerun ==
    InitRerun /\ [][NextRerun]_vars

\* C17: the output file of a book that is skipped, for a missing counterpart
\* or a different row count, is changed by no step of any run.
C17_SkippedBookOutputUntouched ==
    [][\A n \in EnNames :
           ~SameRowCount(n) => out_dir'[n] = out_dir[n]]_vars

\* one book was skipped as missing and the other as mismatched, each with
\* the output of an earlier run still in place
C17_Witness ==
    /\ run = "done"
    /\ \E n, m \in EnNames :
           /\ HasLine("Missing", Counterpart(n))
           /\ HasLine("Mismatch", m)
           /\ out_dir[n] = StaleFile
           /\ out_dir[m] = StaleFile

\* C18: no step of a run changes an English labeled file or a Spanish
\* cleaned file, and no step of a second run changes an output file.
C18_InputsKeptSecondRunSameOutputs ==
    [][/\ en_dir' = en_dir
       /\ es_dir' = es_dir
       /\ (execution_count >= 2 /\ execution_count' = execution_count)
              => out_dir' = out_dir]_vars

\* the second run has saved the first book again, over its own output
C18_Witness ==
    /\ execution_count = 2
    /\ HasLine("Saved", files[1])
    /\ out_dir[files[1]].exists
    /\ out_dir[files[1]] # StaleFile

\* the label cell is word k up to case and surrounding whitespace
CellIs(cell, k) ==
    ~isna(cell) /\ EqualsUpToCaseAndSpace(cell, k)

\* C19: once the cleaning cell has run, every row it read whose trimmed,
\* lowercased label is a key of label_corrections is in the batch with the
\* mapped emotion as its label, and every value of label_corrections is one
\* of the seven canonical emotions.
C19_CorrectableRowsKeptRemapped ==
    /\ \A k \in DOMAIN label_corrections :
           label_corrections[k] \in CanonicalEmotions
    /\ cleaned =>
           \A i \in 1..Len(csv_before) :
               \A k \in DOMAIN label_corrections :
                   CellIs(csv_before[i].label, k) =>
                       \E j \in 1..Len(csv) :
                           csv[j] = [csv_before[i] EXCEPT
                                         !.label = label_corrections[k]]

\* the cell read a row labeled "Trust " and kept it as neutral
C19_Witness ==
    /\ cleaned
    /\ \E i \in 1..Len(csv_before), j \in 1..Len(csv) :
           /\ csv_before[i].label = <<"T","r","u","s","t"," ">>
           /\ csv[j].id = csv_before[i].id
           /\ csv[j].label = s_neutral

\* the rows of the batch read whose label is canonical or correctable
Keepable(df) ==
    {i \in 1..Len(df) :
        \E k \in CanonicalEmotions \cup DOMAIN label_corrections :
            CellIs(df[i].label, k)}

\* C20: once the cleaning cell has run, the rows of the batch are exactly
\* the rows it read whose trimmed, lowercased label is a canonical emotion
\* or a key of label_corrections, as many as there were of them; a row with
\* a missing label is not among them.
C20_ExactlyUncorrectableRowsDropped ==
    cleaned =>
        /\ Len(csv) = Cardinality(Keepable(csv_before))
        /\ {csv[j].id : j \in 1..Len(csv)}
               = {csv_before[i].id : i \in Keepable(csv_before)}
        /\ \A i \in 1..Len(csv_before) :
               isna(csv_before[i].label) => i \notin Keepable(csv_before)

\* the cell read a row with a missing label and a row labeled " Anger",
\* dropped the first and kept the second
C20_Witness ==
    /\ cleaned
    /\ Len(csv_before) = 2
    /\ isna(csv_before[1].label)
    /\ csv_before[2].label = <<" ","A","n","g","e","r">>
    /\ Len(csv) = 1
    /\ csv[1].id = csv_before[2].id

\* C21: the cleaning cell writes to the file it read, and run on a file it
\* has written it leaves every row and every label as it is.
C21_CleaningIdempotent ==
    [][cleaned => csv' = csv]_vars

\* the cell has run on a batch of two rows and found nothing to change
C21_Witness ==
    /\ cleaned
    /\ csv = csv_before
    /\ Len(csv) = 2
    /\ csv[1].label # csv[2].label

\* the rows of the batch read that the rows of the batch written come from,
\* one for each, in increasing order
Origins ==
    {f \in [1..Len(csv) -> 1..Len(csv_before)] :
        \A j, k \in 1..Len(csv) : j < k => f[j] < f[k]}

\* C22: once the cleaning cell has run, the rows of the batch are rows it
\* read, in the order it read them, each with the id and the verse_id it had
\* and with no column other than label changed.
C22_OnlyLabelChangesOrderKept ==
    cleaned =>
        \E f \in Origins :
            \A j \in 1..Len(csv) :
                /\ DOMAIN csv[j] = DOMAIN csv_before[f[j]]
                /\ csv[j].id = csv_before[f[j]].id
                /\ csv[j].verse_id = csv_before[f[j]].verse_id
                /\ \E k \in CanonicalEmotions \cup DOMAIN label_corrections :
                       CellIs(csv_before[f[j]].label, k)

\* the cell dropped the first of two rows and kept the second, of another
\* verse, with its label remapped and its id still 1
C22_Witness ==
    /\ cleaned
    /\ Len(csv_before) = 2
    /\ Len(csv) = 1
    /\ csv_before[1].verse_id # csv_before[2].verse_id
    /\ csv[1].id = 1
    /\ csv[1].verse_id = csv_before[2].verse_id
    /\ csv[1].label # csv_before[2].label

====
